---- MODULE Spec2Model ----
(***************************************************************************)
(* backupify-mysql (cmd/backupify-mysql/main.go): one run of the batch job *)
(* is  loadConfig -> os.MkdirAll -> backupDatabase per configured name ->  *)
(* archiveFiles -> uploadToFTP.  Every call into the operating system, the *)
(* dump process or the FTP server may fail; the outcome is chosen by the   *)
(* environment in the action that makes the call.                          *)
(***************************************************************************)
EXTENDS Integers, Sequences, FiniteSets, TLC

\* ---------------------------------------------------------------- bounds
MaxDbs == 2          \* longest "databases" list of config.json that is explored
MaxTime == 3         \* last clock instant (seconds) that is explored
MaxRuns == 2         \* process invocations by the external scheduler (SpecRuns)
MaxDbsRuns == 1      \* longest "databases" list explored over several runs
BlockSize == 2       \* tar record size (512 in archive/tar), scaled down
DstShift == 2        \* wall-clock set-back of the "DST" zone (3600 s), scaled down

\* ------------------------------------------------------------ input sets
\* A path is the sequence of its components; a database name has one component.
DbNames == {<<"app">>, <<"billing">>}
BackupDirectory == <<"var", "bk">>
FTPDirectory == <<"srv">>
Payloads == {<<7>>, <<7, 0, 9>>}              \* what mysqldump prints
Zones == {"UTC", "DST"}                        \* time.Local of the process
Configs == UNION {[1..n -> DbNames] : n \in 0..MaxDbs}

\* ---------------------------------------------------------- path helpers
\* db + ".sql"
AddSql(db) == [db EXCEPT ![Len(db)] = @ \o ".sql"]
\* filepath.Join on clean relative paths
Join(a, b) == a \o b
\* filepath.Base: the last component
Base(p) == IF Len(p) = 0 THEN "." ELSE p[Len(p)]
BackupFileOf(db) == Join(BackupDirectory, AddSql(db))

\* ------------------------------------------------------------ time layout
\* Offset of the local zone at instant t: the "DST" zone sets the wall clock
\* back by DstShift at instant DstShift (end of daylight saving time).
ZoneOffset(z, t) == IF z = "DST" /\ t < DstShift THEN DstShift ELSE 0
\* time.Now() in the local zone: the wall clock reading
WallClock(z, t) == t + ZoneOffset(z, t)
DigitChar(d) == <<"0", "1", "2", "3", "4", "5", "6", "7", "8", "9">>[d + 1]
\* Time.Format("20060102_150405"): wall clock digits, no zone designator
Format(z, t) ==
    LET w == WallClock(z, t)
    IN "20240101_0000" \o DigitChar((w \div 10) % 10) \o DigitChar(w % 10)
ArchivePathOf(z, t) ==
    Join(BackupDirectory, <<"backup_" \o Format(z, t) \o ".tar.gz">>)

\* ----------------------------------------------------------- tar and gzip
RECURSIVE Blocks(_)
\* The data records of one entry: BlockSize bytes each, the last zero-padded.
Blocks(bytes) ==
    IF Len(bytes) = 0 THEN <<>>
    ELSE IF Len(bytes) <= BlockSize
         THEN <<[k |-> "dat",
                 b |-> [j \in 1..BlockSize |->
                          IF j <= Len(bytes) THEN bytes[j] ELSE 0]]>>
         ELSE <<[k |-> "dat", b |-> SubSeq(bytes, 1, BlockSize)]>>
              \o Blocks(SubSeq(bytes, BlockSize + 1, Len(bytes)))
HeaderBlock(name, size) == [k |-> "hdr", name |-> name, size |-> size]
ZeroBlock == [k |-> "zero"]
GzHeader == [k |-> "gzh"]
GzFooter(n) == [k |-> "gzf", n |-> n]

Put(f, p, v) == [q \in DOMAIN f \cup {p} |-> IF q = p THEN v ELSE f[q]]

\* ------------------------------------------------- reading an archive back
Invalid == [ok |-> FALSE, entries |-> <<>>]
\* gunzip: header, compressed records, trailer whose length field matches.
Gunzip(stream) ==
    IF /\ Len(stream) >= 2
       /\ stream[1] = GzHeader
       /\ stream[Len(stream)] = GzFooter(Len(stream) - 2)
    THEN [ok |-> TRUE, recs |-> SubSeq(stream, 2, Len(stream) - 1)]
    ELSE [ok |-> FALSE, recs |-> <<>>]
RECURSIVE Flatten(_)
Flatten(blocks) ==
    IF Len(blocks) = 0 THEN <<>> ELSE blocks[1].b \o Flatten(Tail(blocks))
RECURSIVE Untar(_)
\* tar -x: a header record, then ceil(size / BlockSize) data records of which
\* the first size bytes are the entry; two zero records end the archive.
Untar(recs) ==
    IF Len(recs) >= 2 /\ recs[1] = ZeroBlock /\ recs[2] = ZeroBlock
    THEN [ok |-> TRUE, entries |-> <<>>]
    ELSE IF Len(recs) = 0 \/ recs[1].k # "hdr" THEN Invalid
    ELSE LET h == recs[1]
             nb == (h.size + BlockSize - 1) \div BlockSize
         IN IF \/ Len(recs) < nb + 1
               \/ \E j \in 2..(nb + 1) : recs[j].k # "dat"
            THEN Invalid
            ELSE LET rest == Untar(SubSeq(recs, nb + 2, Len(recs)))
                     data == Flatten(SubSeq(recs, 2, nb + 1))
                 IN [ok |-> rest.ok,
                     entries |-> IF rest.ok
                                 THEN <<[name |-> h.name,
                                         bytes |-> SubSeq(data, 1, h.size)]>>
                                      \o rest.entries
                                 ELSE <<>>]
Unpack(stream) ==
    LET g == Gunzip(stream) IN IF g.ok THEN Untar(g.recs) ELSE Invalid

VARIABLES
    databases,    \* Config.Databases as written in config.json
    zone,         \* local time zone of the host
    now,          \* clock of the host
    run,          \* number of the current process invocation
    pc,           \* position of main
    exitCode,     \* process exit status, -1 while running
    dirState,     \* backup directory: "missing" or "dir"
    dumps,        \* dump files on disk: path -> bytes
    archives,     \* archive files on disk: path -> gzip stream
    remote,       \* files on the FTP server: path -> gzip stream
    i,            \* index of main's loop over config.Databases
    backupFiles,  \* main's backupFiles
    outcome,      \* per configured database of this run: did backupDatabase return nil
    archivePath,  \* main's archivePath
    k,            \* index of archiveFiles' loop over files
    tw,           \* tar.Writer: sticky error, bytes the current entry still expects
    gz,           \* gzip.Writer: header written, buffered records, sticky error
    archErr,      \* return value of archiveFiles is an error
    upErr,        \* return value of uploadToFTP is an error
    handles,      \* open handles of the process
    closeLog,     \* order in which archiveFiles released its resources
    closeErrs,    \* Close calls of archiveFiles whose error was dropped
    dials,        \* control sessions opened
    quits,        \* control sessions closed
    stages,       \* stages this run has entered
    made          \* every successful os.Create of an archive: instant and path

vars == <<databases, zone, now, run, pc, exitCode, dirState, dumps, archives,
          remote, i, backupFiles, outcome, archivePath, k, tw, gz, archErr,
          upErr, handles, closeLog, closeErrs, dials, quits, stages, made>>

envVars == <<databases, zone, run>>
archVars == <<k, tw, gz, archErr, closeLog, closeErrs>>
ftpVars == <<remote, upErr, dials, quits>>

NoPath == <<>>
FreshTw == [err |-> FALSE, rem |-> 0]
FreshGz == [wroteHeader |-> FALSE, pending |-> <<>>, err |-> FALSE]

\* State of a freshly started process.
ProcessStart ==
    /\ pc = "load"
    /\ exitCode = -1
    /\ i = 1
    /\ backupFiles = <<>>
    /\ outcome = <<>>
    /\ archivePath = NoPath
    /\ k = 1
    /\ tw = FreshTw
    /\ gz = FreshGz
    /\ archErr = FALSE
    /\ upErr = FALSE
    /\ handles = {}
    /\ closeLog = <<>>
    /\ closeErrs = {}
    /\ stages = {}

Init ==
    /\ databases \in Configs
    /\ zone \in Zones
    /\ now = 0
    /\ run = 1
    /\ dirState \in {"missing", "dir"}
    /\ dumps = <<>>
    /\ archives = <<>>
    /\ remote = <<>>
    /\ dials = 0
    /\ quits = 0
    /\ made = <<>>
    /\ ProcessStart

\* log.Fatalf: os.Exit(1), deferred calls of main do not run (it has none).
Fatal ==
    /\ pc' = "exited"
    /\ exitCode' = 1

\* main, lines 137-140
LoadConfig ==
    /\ pc = "load"
    /\ stages' = stages \cup {"load"}
    /\ \E ok \in BOOLEAN :
         IF ok THEN pc' = "mkdir" /\ UNCHANGED exitCode ELSE Fatal
    /\ UNCHANGED <<envVars, now, dirState, dumps, archives, i, backupFiles,
                   outcome, archivePath, archVars, ftpVars, handles, made>>

\* MkdirAll with the error of os.MkdirAll not checked.
MkdirAllIgnoresError ==
    /\ pc = "mkdir"
    /\ stages' = stages \cup {"mkdir"}
    /\ \E ok \in BOOLEAN :
         IF dirState = "dir" \/ ok
         THEN dirState' = "dir" /\ pc' = "dump" /\ UNCHANGED exitCode
         ELSE pc' = "dump" /\ UNCHANGED <<exitCode, dirState>>
    /\ UNCHANGED <<envVars, now, dumps, archives, i, backupFiles, outcome,
                   archivePath, archVars, ftpVars, handles, made>>

\* main, lines 142-145
MkdirAll ==
    /\ pc = "mkdir"
    /\ stages' = stages \cup {"mkdir"}
    /\ \E ok \in BOOLEAN :
         IF dirState = "dir" \/ ok
         THEN dirState' = "dir" /\ pc' = "dump" /\ UNCHANGED exitCode
         ELSE Fatal /\ UNCHANGED dirState
    /\ UNCHANGED <<envVars, now, dumps, archives, i, backupFiles, outcome,
                   archivePath, archVars, ftpVars, handles, made>>

\* main, lines 148-151 and backupDatabase, lines 43-54: os.Create(outputFile)
BackupCreate ==
    /\ pc = "dump"
    /\ i <= Len(databases)
    /\ stages' = stages \cup {"dump"}
    /\ LET backupFile == BackupFileOf(databases[i])
       IN \E ok \in BOOLEAN :
            IF ok
            THEN /\ dumps' = Put(dumps, backupFile, <<>>)
                 /\ handles' = handles \cup {"outfile"}
                 /\ pc' = "dump_run"
                 /\ UNCHANGED <<i, outcome>>
            ELSE \* return error; main logs it and continues (152-155)
                 /\ outcome' = Append(outcome, FALSE)
                 /\ i' = i + 1
                 /\ UNCHANGED <<dumps, handles, pc>>
    /\ UNCHANGED <<envVars, now, exitCode, dirState, archives, backupFiles,
                   archivePath, archVars, ftpVars, made>>

\* The prefixes of a payload that a failing dump may leave in the file.
Partial(payload) == {SubSeq(payload, 1, n) : n \in 0..(Len(payload) - 1)}

\* BackupRun with a failing dump treated as fatal (log.Fatalf instead of continue).
BackupRunFatal ==
    /\ pc = "dump_run"
    /\ LET backupFile == BackupFileOf(databases[i])
       IN \E payload \in Payloads, ok \in BOOLEAN :
            IF ok
            THEN /\ dumps' = Put(dumps, backupFile, payload)
                 /\ backupFiles' = Append(backupFiles, backupFile)
                 /\ outcome' = Append(outcome, TRUE)
                 /\ pc' = "dump" /\ UNCHANGED exitCode
            ELSE /\ \E part \in Partial(payload) :
                       dumps' = Put(dumps, backupFile, part)
                 /\ outcome' = Append(outcome, FALSE)
                 /\ UNCHANGED backupFiles
                 /\ Fatal
    /\ handles' = handles \ {"outfile"}
    /\ i' = i + 1
    /\ UNCHANGED <<envVars, now, dirState, archives, archivePath,
                   archVars, ftpVars, stages, made>>

\* backupDatabase, lines 56-61, its deferred outfile.Close(), and main 152-156
BackupRun ==
    /\ pc = "dump_run"
    /\ LET backupFile == BackupFileOf(databases[i])
       IN \E payload \in Payloads, ok \in BOOLEAN :
            IF ok
            THEN /\ dumps' = Put(dumps, backupFile, payload)
                 /\ backupFiles' = Append(backupFiles, backupFile)
                 /\ outcome' = Append(outcome, TRUE)
            ELSE /\ \E part \in Partial(payload) :
                       dumps' = Put(dumps, backupFile, part)
                 /\ outcome' = Append(outcome, FALSE)
                 /\ UNCHANGED backupFiles
    /\ handles' = handles \ {"outfile"}
    /\ i' = i + 1
    /\ pc' = "dump"
    /\ UNCHANGED <<envVars, now, exitCode, dirState, archives, archivePath,
                   archVars, ftpVars, stages, made>>

\* main, lines 157-160: the loop is over, the archive is named after the clock
ArchiveName ==
    /\ pc = "dump"
    /\ i > Len(databases)
    /\ \E t \in now..MaxTime :
         /\ now' = t
         /\ archivePath' = ArchivePathOf(zone, t)
    /\ pc' = "archive"
    /\ UNCHANGED <<envVars, exitCode, dirState, dumps, archives, i,
                   backupFiles, outcome, archVars, ftpVars, handles, stages,
                   made>>

\* gzip.Writer.Write: the first Write puts the gzip header into the file, the
\* records stay in the compressor until Close.  ok: the environment lets the
\* write through.
GzWrite(g, recs, ok) ==
    IF g.err \/ ~ok
    THEN [g EXCEPT !.err = TRUE]
    ELSE [g EXCEPT !.wroteHeader = TRUE, !.pending = @ \o recs]
\* What the first successful Write adds to the file on disk.
GzHeaderBytes(g, ok) ==
    IF ~g.err /\ ok /\ ~g.wroteHeader THEN <<GzHeader>> ELSE <<>>

\* Handle of the k-th input file opened by archiveFiles (line 94).
InputHandle(n) == "fileContent" \o DigitChar(n)

\* archiveFiles, lines 65-75: os.Create, gzip.NewWriter, tar.NewWriter
ArchiveCreate ==
    /\ pc = "archive"
    /\ stages' = stages \cup {"archive"}
    /\ \E ok \in BOOLEAN :
         IF ok
         THEN /\ archives' = Put(archives, archivePath, <<>>)
              /\ made' = Append(made, [t |-> now, path |-> archivePath])
              /\ handles' = handles \cup {"tarFile", "gzWriter", "tarWriter"}
              /\ pc' = "arch_loop"
              /\ UNCHANGED archErr
         ELSE /\ archErr' = TRUE
              /\ pc' = "arch_return"
              /\ UNCHANGED <<archives, made, handles>>
    /\ k' = 1
    /\ tw' = FreshTw
    /\ gz' = FreshGz
    /\ UNCHANGED <<envVars, now, exitCode, dirState, dumps, i, backupFiles,
                   outcome, archivePath, closeLog, closeErrs, ftpVars>>

\* ArchiveStat with the error return bypassing the deferred Close calls.
ArchiveStatLeaks ==
    /\ pc = "arch_loop"
    /\ k <= Len(backupFiles)
    /\ \E ok \in BOOLEAN :
         IF ok /\ backupFiles[k] \in DOMAIN dumps
         THEN pc' = "arch_hdr" /\ UNCHANGED archErr
         ELSE pc' = "arch_return" /\ archErr' = TRUE
    /\ UNCHANGED <<envVars, now, exitCode, dirState, dumps, archives, i,
                   backupFiles, outcome, archivePath, k, tw, gz, closeLog,
                   closeErrs, ftpVars, handles, stages, made>>

\* archiveFiles, lines 77-86: os.Stat and tar.FileInfoHeader of the next file
ArchiveStat ==
    /\ pc = "arch_loop"
    /\ k <= Len(backupFiles)
    /\ \E ok \in BOOLEAN :
         IF ok /\ backupFiles[k] \in DOMAIN dumps
         THEN pc' = "arch_hdr" /\ UNCHANGED archErr
         ELSE pc' = "arch_defer" /\ archErr' = TRUE
    /\ UNCHANGED <<envVars, now, exitCode, dirState, dumps, archives, i,
                   backupFiles, outcome, archivePath, k, tw, gz, closeLog,
                   closeErrs, ftpVars, handles, stages, made>>

\* archiveFiles, lines 88-92: header.Name = filepath.Base(file); WriteHeader
ArchiveWriteHeader ==
    /\ pc = "arch_hdr"
    /\ LET file == backupFiles[k]
           size == Len(dumps[file])
           hdr == HeaderBlock(Base(file), size)
       IN \E ok \in BOOLEAN :
            /\ gz' = GzWrite(gz, <<hdr>>, ok)
            /\ archives' = Put(archives, archivePath,
                               archives[archivePath] \o GzHeaderBytes(gz, ok))
            /\ IF ok
               THEN /\ tw' = [tw EXCEPT !.rem = size]
                    /\ pc' = "arch_open"
                    /\ UNCHANGED archErr
               ELSE /\ tw' = [tw EXCEPT !.err = TRUE]
                    /\ pc' = "arch_defer"
                    /\ archErr' = TRUE
    /\ UNCHANGED <<envVars, now, exitCode, dirState, dumps, i, backupFiles,
                   outcome, archivePath, k, closeLog, closeErrs, ftpVars,
                   handles, stages, made>>

\* archiveFiles, lines 94-98: os.Open(file); defer fileContent.Close()
ArchiveOpen ==
    /\ pc = "arch_open"
    /\ \E ok \in BOOLEAN :
         IF ok
         THEN /\ handles' = handles \cup {InputHandle(k)}
              /\ pc' = "arch_copy"
              /\ UNCHANGED archErr
         ELSE /\ pc' = "arch_defer"
              /\ archErr' = TRUE
              /\ UNCHANGED handles
    /\ UNCHANGED <<envVars, now, exitCode, dirState, dumps, archives, i,
                   backupFiles, outcome, archivePath, k, tw, gz, closeLog,
                   closeErrs, ftpVars, stages, made>>

\* archiveFiles, lines 100-103: io.Copy(tarWriter, fileContent).  The copy fails
\* on a write error, which sticks to both writers, or on a read error, which
\* leaves the entry short.
ArchiveCopy ==
    /\ pc = "arch_copy"
    /\ LET bytes == dumps[backupFiles[k]]
       IN \E ok, written \in BOOLEAN :
            IF ok
            THEN /\ written
                 /\ gz' = GzWrite(gz, Blocks(bytes), TRUE)
                 /\ tw' = [tw EXCEPT !.rem = tw.rem - Len(bytes)]
                 /\ k' = k + 1
                 /\ pc' = "arch_loop"
                 /\ UNCHANGED archErr
            ELSE /\ gz' = IF written THEN gz ELSE GzWrite(gz, <<>>, FALSE)
                 /\ tw' = IF written THEN tw ELSE [tw EXCEPT !.err = TRUE]
                 /\ pc' = "arch_defer"
                 /\ archErr' = TRUE
                 /\ UNCHANGED k
    /\ UNCHANGED <<envVars, now, exitCode, dirState, dumps, archives, i,
                   backupFiles, outcome, archivePath, closeLog, closeErrs,
                   ftpVars, handles, stages, made>>

\* ArchiveLoopEnd with an empty file list reported as an error.
ArchiveLoopEndRejectsEmpty ==
    /\ pc = "arch_loop"
    /\ k > Len(backupFiles)
    /\ archErr' = (Len(backupFiles) = 0)
    /\ pc' = "arch_defer"
    /\ UNCHANGED <<envVars, now, exitCode, dirState, dumps, archives, i,
                   backupFiles, outcome, archivePath, k, tw, gz, closeLog,
                   closeErrs, ftpVars, handles, stages, made>>

\* archiveFiles, line 106: the loop is over, return nil
ArchiveLoopEnd ==
    /\ pc = "arch_loop"
    /\ k > Len(backupFiles)
    /\ archErr' = FALSE
    /\ pc' = "arch_defer"
    /\ UNCHANGED <<envVars, now, exitCode, dirState, dumps, archives, i,
                   backupFiles, outcome, archivePath, k, tw, gz, closeLog,
                   closeErrs, ftpVars, handles, stages, made>>

\* The deferred fileContent.Close() calls (line 98), last opened first.
ArchiveCloseInputs ==
    /\ pc = "arch_defer"
    /\ handles' = handles \ {InputHandle(n) : n \in 1..Len(backupFiles)}
    /\ pc' = "arch_tarclose"
    /\ UNCHANGED <<envVars, now, exitCode, dirState, dumps, archives, i,
                   backupFiles, outcome, archivePath, archVars, ftpVars,
                   stages, made>>

\* defer tarWriter.Close() (line 75): writes the two-record trailer unless the
\* writer is in error or the current entry is short; the result is dropped.
TarClose ==
    /\ pc = "arch_tarclose"
    /\ closeLog' = Append(closeLog, "tarWriter")
    /\ handles' = handles \ {"tarWriter"}
    /\ IF tw.err \/ tw.rem > 0
       THEN /\ closeErrs' = closeErrs \cup {"tarWriter"}
            /\ UNCHANGED <<gz, archives>>
       ELSE \E ok \in BOOLEAN :
            /\ gz' = GzWrite(gz, <<ZeroBlock, ZeroBlock>>, ok)
            /\ archives' = Put(archives, archivePath,
                               archives[archivePath] \o GzHeaderBytes(gz, ok))
            /\ closeErrs' = IF gz.err \/ ~ok THEN closeErrs \cup {"tarWriter"}
                            ELSE closeErrs
    /\ tw' = [tw EXCEPT !.err = TRUE]
    /\ pc' = "arch_gzclose"
    /\ UNCHANGED <<envVars, now, exitCode, dirState, dumps, i, backupFiles,
                   outcome, archivePath, k, archErr, ftpVars, stages, made>>

\* defer gzWriter.Close() (line 72): flushes the compressor and writes the
\* gzip trailer into the file; the result is dropped.
GzClose ==
    /\ pc = "arch_gzclose"
    /\ closeLog' = Append(closeLog, "gzWriter")
    /\ handles' = handles \ {"gzWriter"}
    /\ IF gz.err
       THEN /\ closeErrs' = closeErrs \cup {"gzWriter"}
            /\ UNCHANGED <<gz, archives>>
       ELSE \E ok \in BOOLEAN :
            IF ok
            THEN /\ archives' = Put(archives, archivePath,
                        archives[archivePath]
                        \o (IF gz.wroteHeader THEN <<>> ELSE <<GzHeader>>)
                        \o gz.pending \o <<GzFooter(Len(gz.pending))>>)
                 /\ gz' = [gz EXCEPT !.wroteHeader = TRUE, !.pending = <<>>]
                 /\ UNCHANGED closeErrs
            ELSE /\ gz' = [gz EXCEPT !.err = TRUE]
                 /\ closeErrs' = closeErrs \cup {"gzWriter"}
                 /\ UNCHANGED archives
    /\ pc' = "arch_fileclose"
    /\ UNCHANGED <<envVars, now, exitCode, dirState, dumps, i, backupFiles,
                   outcome, archivePath, k, tw, archErr, ftpVars, stages, made>>

\* defer tarFile.Close() (line 69); the result is dropped.
FileClose ==
    /\ pc = "arch_fileclose"
    /\ closeLog' = Append(closeLog, "tarFile")
    /\ handles' = handles \ {"tarFile"}
    /\ \E ok \in BOOLEAN :
         closeErrs' = IF ok THEN closeErrs ELSE closeErrs \cup {"tarFile"}
    /\ pc' = "arch_return"
    /\ UNCHANGED <<envVars, now, exitCode, dirState, dumps, archives, i,
                   backupFiles, outcome, archivePath, k, tw, gz, archErr,
                   ftpVars, stages, made>>

\* ArchiveReturn with the error of archiveFiles not checked.
ArchiveReturnIgnoresError ==
    /\ pc = "arch_return"
    /\ pc' = "upload" /\ UNCHANGED exitCode
    /\ UNCHANGED <<envVars, now, dirState, dumps, archives, i, backupFiles,
                   outcome, archivePath, archVars, ftpVars, handles, stages,
                   made>>

\* main, lines 161-166
ArchiveReturn ==
    /\ pc = "arch_return"
    /\ IF archErr THEN Fatal ELSE pc' = "upload" /\ UNCHANGED exitCode
    /\ UNCHANGED <<envVars, now, dirState, dumps, archives, i, backupFiles,
                   outcome, archivePath, archVars, ftpVars, handles, stages,
                   made>>

\* uploadToFTP, lines 110-114: ftp.Dial; defer conn.Quit()
FtpDial ==
    /\ pc = "upload"
    /\ stages' = stages \cup {"upload"}
    /\ \E ok \in BOOLEAN :
         IF ok
         THEN /\ dials' = dials + 1
              /\ handles' = handles \cup {"conn"}
              /\ pc' = "ftp_login"
              /\ UNCHANGED upErr
         ELSE /\ upErr' = TRUE
              /\ pc' = "up_return"
              /\ UNCHANGED <<dials, handles>>
    /\ UNCHANGED <<envVars, now, exitCode, dirState, dumps, archives, i,
                   backupFiles, outcome, archivePath, archVars, remote, quits,
                   made>>

\* FtpLogin with conn.Quit() deferred only after a successful login.
FtpLoginLeaks ==
    /\ pc = "ftp_login"
    /\ \E ok \in BOOLEAN :
         IF ok
         THEN pc' = "ftp_open" /\ UNCHANGED upErr
         ELSE pc' = "up_return" /\ upErr' = TRUE
    /\ UNCHANGED <<envVars, now, exitCode, dirState, dumps, archives, i,
                   backupFiles, outcome, archivePath, archVars, remote, dials,
                   quits, handles, stages, made>>

\* uploadToFTP, lines 116-119: conn.Login
FtpLogin ==
    /\ pc = "ftp_login"
    /\ \E ok \in BOOLEAN :
         IF ok
         THEN pc' = "ftp_open" /\ UNCHANGED upErr
         ELSE pc' = "ftp_quit" /\ upErr' = TRUE
    /\ UNCHANGED <<envVars, now, exitCode, dirState, dumps, archives, i,
                   backupFiles, outcome, archivePath, archVars, remote, dials,
                   quits, handles, stages, made>>

\* uploadToFTP, lines 121-125: os.Open(localFile); defer file.Close()
FtpOpen ==
    /\ pc = "ftp_open"
    /\ \E ok \in BOOLEAN :
         IF ok /\ archivePath \in DOMAIN archives
         THEN /\ handles' = handles \cup {"file"}
              /\ pc' = "ftp_stor"
              /\ UNCHANGED upErr
         ELSE /\ upErr' = TRUE
              /\ pc' = "ftp_quit"
              /\ UNCHANGED handles
    /\ UNCHANGED <<envVars, now, exitCode, dirState, dumps, archives, i,
                   backupFiles, outcome, archivePath, archVars, remote, dials,
                   quits, stages, made>>

\* uploadToFTP, lines 127-133: conn.Stor(remotePath, file).  A failing store
\* leaves the server's file as it was.
FtpStor ==
    /\ pc = "ftp_stor"
    /\ LET remotePath == Join(FTPDirectory, <<Base(archivePath)>>)
       IN \E ok \in BOOLEAN :
            IF ok
            THEN /\ remote' = Put(remote, remotePath, archives[archivePath])
                 /\ UNCHANGED upErr
            ELSE /\ upErr' = TRUE
                 /\ UNCHANGED remote
    /\ pc' = "ftp_fclose"
    /\ UNCHANGED <<envVars, now, exitCode, dirState, dumps, archives, i,
                   backupFiles, outcome, archivePath, archVars, dials, quits,
                   handles, stages, made>>

\* uploadToFTP, the deferred file.Close() of line 125
FtpFileClose ==
    /\ pc = "ftp_fclose"
    /\ handles' = handles \ {"file"}
    /\ pc' = "ftp_quit"
    /\ UNCHANGED <<envVars, now, exitCode, dirState, dumps, archives, i,
                   backupFiles, outcome, archivePath, archVars, ftpVars,
                   stages, made>>

\* uploadToFTP, the deferred conn.Quit() of line 114: sends QUIT and closes the
\* connection whether or not the server answers; the result is dropped.
FtpQuit ==
    /\ pc = "ftp_quit"
    /\ quits' = quits + 1
    /\ handles' = handles \ {"conn"}
    /\ pc' = "up_return"
    /\ UNCHANGED <<envVars, now, exitCode, dirState, dumps, archives, i,
                   backupFiles, outcome, archivePath, archVars, remote, upErr,
                   dials, stages, made>>

\* main, lines 167-173: log.Fatalf on error, else "Backup completed", exit 0
UploadReturn ==
    /\ pc = "up_return"
    /\ IF upErr THEN Fatal ELSE pc' = "exited" /\ exitCode' = 0
    /\ UNCHANGED <<envVars, now, dirState, dumps, archives, i, backupFiles,
                   outcome, archivePath, archVars, ftpVars, handles, stages,
                   made>>

\* The external scheduler starts the program again (main, line 136): a new
\* process, the same host: disk, server, clock and config.json are kept.
NextRun ==
    /\ pc = "exited"
    /\ run < MaxRuns
    /\ run' = run + 1
    /\ pc' = "load"
    /\ exitCode' = -1
    /\ i' = 1
    /\ backupFiles' = <<>>
    /\ outcome' = <<>>
    /\ archivePath' = NoPath
    /\ k' = 1
    /\ tw' = FreshTw
    /\ gz' = FreshGz
    /\ archErr' = FALSE
    /\ upErr' = FALSE
    /\ handles' = {}
    /\ closeLog' = <<>>
    /\ closeErrs' = {}
    /\ stages' = {}
    /\ UNCHANGED <<databases, zone, now, dirState, dumps, archives, remote,
                   dials, quits, made>>

Next ==
    \/ LoadConfig
    \/ MkdirAll
    \/ BackupCreate
    \/ BackupRun
    \/ ArchiveName
    \/ ArchiveCreate
    \/ ArchiveStat
    \/ ArchiveWriteHeader
    \/ ArchiveOpen
    \/ ArchiveCopy
    \/ ArchiveLoopEnd
    \/ ArchiveCloseInputs
    \/ TarClose
    \/ GzClose
    \/ FileClose
    \/ ArchiveReturn
    \/ FtpDial
    \/ FtpLogin
    \/ FtpOpen
    \/ FtpStor
    \/ FtpFileClose
    \/ FtpQuit
    \/ UploadReturn

NextRuns ==
    \/ LoadConfig
    \/ MkdirAll
    \/ BackupCreate
    \/ BackupRun
    \/ ArchiveName
    \/ ArchiveCreate
    \/ ArchiveStat
    \/ ArchiveWriteHeader
    \/ ArchiveOpen
    \/ ArchiveCopy
    \/ ArchiveLoopEnd
    \/ ArchiveCloseInputs
    \/ TarClose
    \/ GzClose
    \/ FileClose
    \/ ArchiveReturn
    \/ FtpDial
    \/ FtpLogin
    \/ FtpOpen
    \/ FtpStor
    \/ FtpFileClose
    \/ FtpQuit
    \/ UploadReturn
    \/ NextRun

Spec == Init /\ [][Next]_vars

\* Several runs on one host, one after the other.
InitRuns == Init /\ Len(databases) <= MaxDbsRuns

SpecRuns == InitRuns /\ [][NextRuns]_vars
\* ------------------------------------------------------------ properties
InUpload == pc \in {"ftp_login", "ftp_open", "ftp_stor", "ftp_fclose", "ftp_quit"}
\* archiveFiles has returned nil to main
ArchiveReturnedNil ==
    \/ pc = "upload" \/ InUpload \/ pc = "up_return"
    \/ pc = "exited" /\ "upload" \in stages
\* the loop over config.Databases is over
DumpsDone == pc = "archive" \/ "archive" \in stages
Succeeded == {j \in 1..Len(outcome) : outcome[j]}
RECURSIVE NamesOf(_, _)
\* "<database>.sql" for the databases from index j on whose dump succeeded
NamesOf(dbs, j) ==
    IF j > Len(dbs) THEN <<>>
    ELSE (IF j \in Succeeded THEN <<dbs[j][Len(dbs[j])] \o ".sql">> ELSE <<>>)
         \o NamesOf(dbs, j + 1)
EntryNames(u) == [j \in 1..Len(u.entries) |-> u.entries[j].name]

\* C1: when archiveFiles has returned nil, the archive unpacks to exactly one
\* entry per database whose dump succeeded, named <database>.sql, and to no
\* entry for a database whose dump failed.
C1_EntriesAreSuccessfulDumps ==
    ArchiveReturnedNil =>
        LET u == Unpack(archives[archivePath])
        IN /\ u.ok
           /\ Len(u.entries) = Cardinality(Succeeded)
           /\ EntryNames(u) = NamesOf(databases, 1)

\* C8: when archiveFiles has returned nil, unpacking the archive yields, in
\* the order of the input list, one entry per input file whose bytes are the
\* bytes of that dump file.
C8_RoundTrip ==
    ArchiveReturnedNil =>
        LET u == Unpack(archives[archivePath])
        IN /\ u.ok
           /\ Len(u.entries) = Len(backupFiles)
           /\ \A j \in 1..Len(backupFiles) :
                /\ u.entries[j].bytes = dumps[backupFiles[j]]
                /\ u.entries[j].name = Base(backupFiles[j])

\* C10: an I/O failure anywhere in archiveFiles, the closing writes of the tar
\* writer, the compressor and the file included, makes it return an error:
\* when it returns nil no Close has failed, and main never uploads otherwise.
C10_EveryFailureIsReturned ==
    /\ pc = "arch_return" /\ closeErrs # {} => archErr
    /\ ArchiveReturnedNil => closeErrs = {}

\* C7: two runs that read different clock instants never create the same
\* archive path, so no run truncates the archive of an earlier run.
C7_DistinctInstantsDistinctArchives ==
    \A a, b \in 1..Len(made) :
        made[a].t # made[b].t => made[a].path # made[b].path
\* main has left its loop over config.Databases
LoopOver ==
    /\ "mkdir" \in stages /\ dirState = "dir"
    /\ pc # "dump_run" /\ i > Len(databases)

\* C2: a failing dump never ends the run: no exit happens inside the dump
\* stage, every configured database is attempted, the archive stage is
\* entered, the upload is entered when archiveFiles returns nil, and the exit
\* code is 0 whenever archiveFiles and uploadToFTP return nil.
C2_DumpFailureNotFatal ==
    /\ pc = "exited" /\ "mkdir" \in stages /\ dirState = "dir"
          => "archive" \in stages
    /\ DumpsDone => Len(outcome) = Len(databases)
    /\ pc = "exited" /\ "archive" \in stages /\ ~archErr => "upload" \in stages
    /\ pc = "exited" /\ "upload" \in stages /\ ~upErr => exitCode = 0
C2_Witness ==
    /\ pc = "exited" /\ exitCode = 0
    /\ databases = <<(<<"app">>), (<<"billing">>)>>
    /\ outcome = <<TRUE, FALSE>>
    /\ EntryNames(Unpack(archives[archivePath])) = <<"app.sql">>

\* C3: exit code 0 only after config load, directory creation, archiveFiles
\* and uploadToFTP all succeeded; a failure of any of the four ends the run
\* with exit code 1 and no later stage is entered.
C3_ExitZeroOnlyOnFullSuccess ==
    /\ exitCode = 0 =>
          /\ pc = "exited"
          /\ {"load", "mkdir", "archive", "upload"} \subseteq stages
          /\ dirState = "dir" /\ ~archErr /\ ~upErr
    /\ archErr =>
          /\ "upload" \notin stages /\ pc # "upload" /\ ~InUpload
          /\ pc = "exited" => exitCode = 1
    /\ upErr /\ pc = "exited" => exitCode = 1
    /\ pc = "exited" /\ "mkdir" \notin stages
          => exitCode = 1 /\ stages = {"load"}
    /\ pc = "exited" /\ dirState = "missing"
          => exitCode = 1 /\ stages \subseteq {"load", "mkdir"}
C3_Witness ==
    /\ pc = "exited" /\ exitCode = 1
    /\ archErr /\ closeLog # <<>>
    /\ "upload" \notin stages

\* C4: while the backup directory is missing, backupDatabase is not called:
\* no dump attempt, no dump file, no archive file, no FTP session, and the
\* process that could not create the directory exits with code 1.
C4_NoDumpWithoutDirectory ==
    dirState = "missing" =>
        /\ pc \in {"load", "mkdir", "exited"}
        /\ outcome = <<>> /\ "dump" \notin stages
        /\ DOMAIN dumps = {} /\ DOMAIN archives = {}
        /\ dials = 0 /\ handles = {}
        /\ pc = "exited" => exitCode = 1
C4_Witness ==
    /\ pc = "exited" /\ dirState = "missing" /\ "mkdir" \in stages
    /\ Len(databases) > 0

\* C5: a control session opened by uploadToFTP is closed exactly once before
\* uploadToFTP returns, on every path, also when main then exits fatally.
C5_SessionClosedOnce ==
    /\ quits = IF InUpload THEN dials - 1 ELSE dials
    /\ "conn" \in handles <=> InUpload
    /\ dials <= run
C5_Witness ==
    /\ pc = "exited" /\ exitCode = 1
    /\ upErr /\ dials = 1 /\ quits = 1

CloseOrder == <<"tarWriter", "gzWriter", "tarFile">>
\* C9: once the archive file was created, archiveFiles closes the tar writer,
\* then the gzip writer, then the file, on the success path and on every
\* error path, and all three are closed before main goes on to the upload.
C9_ReverseOrderRelease ==
    /\ closeLog = SubSeq(CloseOrder, 1, Len(closeLog))
    /\ made # <<>> /\ (pc = "arch_return" \/ ArchiveReturnedNil
                       \/ (pc = "exited" /\ "archive" \in stages)) =>
          /\ closeLog = CloseOrder
          /\ handles \cap {"tarWriter", "gzWriter", "tarFile"} = {}
    /\ pc = "upload" \/ InUpload => closeLog = CloseOrder
C9_Witness ==
    /\ pc = "arch_return" /\ archErr
    /\ closeLog = CloseOrder
    /\ Len(backupFiles) > 0
====
